---- MODULE Spec2Model ----
(***************************************************************************)
(* PointFM (voice_rec_sys/Recommender/FMRecommender.py): the point-wise    *)
(* factorization machine's scoring function (forward, predict) and its     *)
(* training loop (fit).                                                    *)
(*                                                                         *)
(* Numbers.  Embedding entries and biases are small integers, so that the  *)
(* dot products are exact.  A Python/torch float that can be non-finite    *)
(* (a loss, an epoch total) is a record [k, v]: k = "fin" with the value   *)
(* v * 2^-20 (a dyadic unit: every sum and difference of such values is an *)
(* exact float), or k \in {"nan", "pinf", "ninf"}.  The value the          *)
(* criterion and the norm penalties produce for a batch depends on float   *)
(* arithmetic over the data and is drawn from CriterionValues and          *)
(* PenaltyValues.  The optimizer's in-place update of the parameters is    *)
(* counted in `updates`: the parameter values are a function of the        *)
(* constructed tables and of the updates applied so far.                   *)
(***************************************************************************)
EXTENDS Integers, Sequences, FiniteSets, TLC

VARIABLES
    \* construction parameters (PointFM.__init__)
    feature, loss_type, epochs, early_stop, weights,
    \* environment and argument of fit
    cuda_available, train_loader,
    \* module state
    device, training, updates, grads,
    \* fit's locals and position
    pc, outcome, epoch, it, batch, prediction, loss, current_loss, last_loss,
    \* observations of a run of fit
    loader_calls, batches_done, steps_log, consumed, epochs_same,
    \* a call of forward / predict and what it returned
    call, ret

vars == <<feature, loss_type, epochs, early_stop, weights, cuda_available,
          train_loader, device, training, updates, grads, pc, outcome, epoch,
          it, batch, prediction, loss, current_loss, last_loss, loader_calls,
          batches_done, steps_log, consumed, epochs_same, call, ret>>

fitVars == <<cuda_available, train_loader, device, training, updates, grads,
             pc, outcome, epoch, it, batch, prediction, loss, current_loss,
             last_loss, loader_calls, batches_done, steps_log, consumed,
             epochs_same>>

-----------------------------------------------------------------------------
(* Bounds of the model *)

MaxEpochs == 3
MaxBatches == 2
MaxBatchLen == 2
Factors == 2

(* Sizes fixed by the program *)

GenderNum == 2
AgeNum == 3

(* The modelled instance: the user and item indices, the feature modes (3  *)
(* stands for any value other than 0, 1, 2), the loss types ("XYZ" stands  *)
(* for any string other than 'CL', 'SL') and the seeds of the tables.      *)

Users == {0, 1}
Items == {0, 1}
Genders == 0..(GenderNum - 1)
Ages == 0..(AgeNum - 1)
Features == {0, 1, 2, 3}
LossTypes == {"CL", "SL", "XYZ"}
Seeds == {1, 2}
UserNum == Cardinality(Users)
ItemNum == Cardinality(Items)

(* The finite floats of the model are the multiples v / Scale of 2^-20;   *)
(* the threshold of the early stop is 1e-5 = 1 / ThresholdInverse, which   *)
(* lies strictly between 10 / Scale and 11 / Scale.                        *)
Scale == 2^20
ThresholdInverse == 100000

-----------------------------------------------------------------------------
(* Floats *)

Fin(n) == [k |-> "fin", v |-> n]
NaN == [k |-> "nan", v |-> 0]
PosInf == [k |-> "pinf", v |-> 0]
NegInf == [k |-> "ninf", v |-> 0]

IsFinite(a) == a.k = "fin"

\* torch.isnan
isnan(a) == a.k = "nan"

\* float + float
FAdd(a, b) ==
    IF a.k = "nan" \/ b.k = "nan" THEN NaN
    ELSE IF a.k = "fin" /\ b.k = "fin" THEN Fin(a.v + b.v)
    ELSE IF a.k = "fin" THEN b
    ELSE IF b.k = "fin" THEN a
    ELSE IF a.k = b.k THEN a
    ELSE NaN

FNeg(a) ==
    IF a.k = "fin" THEN Fin(0 - a.v)
    ELSE IF a.k = "pinf" THEN NegInf
    ELSE IF a.k = "ninf" THEN PosInf
    ELSE NaN

\* float - float
FSub(a, b) == FAdd(a, FNeg(b))

\* abs(float)
FAbs(a) ==
    IF a.k = "fin" THEN Fin(IF a.v < 0 THEN 0 - a.v ELSE a.v)
    ELSE IF a.k = "nan" THEN NaN
    ELSE PosInf

\* float < 1e-5: false for NaN; v / Scale < 1 / ThresholdInverse otherwise
LtThreshold(a) ==
    IF a.k = "fin" THEN a.v * ThresholdInverse < Scale
    ELSE a.k = "ninf"

-----------------------------------------------------------------------------
(* Tensors: a [B, F] tensor is a sequence of B rows of F integers; an      *)
(* index tensor is a sequence of 0-based indices; an optional argument is  *)
(* [some, v].                                                              *)

None == [some |-> FALSE, v |-> <<>>]
Some(s) == [some |-> TRUE, v |-> s]

RECURSIVE SumSeq(_)
SumSeq(s) == IF s = <<>> THEN 0 ELSE Head(s) + SumSeq(Tail(s))

\* nn.Embedding.__call__: row idx[k] of the table for each k
Embedding(table, idx) == [k \in 1..Len(idx) |-> table[idx[k] + 1]]

\* x * y, element-wise
Mul(x, y) == [k \in 1..Len(x) |-> [f \in 1..Len(x[k]) |-> x[k][f] * y[k][f]]]

\* x + y, element-wise
Add(x, y) == [k \in 1..Len(x) |-> [f \in 1..Len(x[k]) |-> x[k][f] + y[k][f]]]

\* x + p for a one-element parameter p (broadcast)
AddScalar(x, p) == [k \in 1..Len(x) |-> [f \in 1..Len(x[k]) |-> x[k][f] + p[1]]]

\* x.sum(dim=-1, keepdim=True)
SumLast(x) == [k \in 1..Len(x) |-> <<SumSeq(x[k])>>]

\* x.view(-1) of a [B, 1] tensor
View(x) == [k \in 1..Len(x) |-> x[k][1]]

-----------------------------------------------------------------------------
(* The parameter tables *)

\* an entry of a table, as nn.init.normal_ might have drawn it
Entry(seed, t, r, c) == ((seed * 7 + t * 11 + r * 3 + c * 5 + r * c * seed) % 5) - 2

Table(seed, t, rows, cols) ==
    [r \in 1..rows |-> [c \in 1..cols |-> Entry(seed, t, r, c)]]

\* PointFM.__init__: the tables that exist for a feature mode.  zero_bias is
\* the state right after construction; otherwise the biases have any value,
\* as after training.
Construct(feat, seed, zero_bias) ==
    LET bias(t, rows) == IF zero_bias THEN [r \in 1..rows |-> <<0>>]
                         ELSE Table(seed, t, rows, 1)
        base == [embed_user |-> Table(seed, 1, UserNum, Factors),
                 embed_item |-> Table(seed, 2, ItemNum, Factors),
                 u_bias |-> bias(3, UserNum),
                 i_bias |-> bias(4, ItemNum),
                 bias_ |-> IF zero_bias THEN <<0>> ELSE <<Entry(seed, 9, 1, 1)>>]
        gender == [embed_gender |-> Table(seed, 5, GenderNum, Factors),
                   g_bias |-> bias(6, GenderNum)]
        age == [embed_age |-> Table(seed, 7, AgeNum, Factors),
                a_bias |-> bias(8, AgeNum)]
        Join(f, g) == [n \in (DOMAIN f) \cup (DOMAIN g) |->
                          IF n \in DOMAIN f THEN f[n] ELSE g[n]]
    IN  IF feat = 0 THEN Join(base, gender)
        ELSE IF feat = 1 THEN Join(base, age)
        ELSE IF feat = 2 THEN Join(Join(base, gender), age)
        ELSE base

-----------------------------------------------------------------------------
(* The scoring function *)

BaseLookups == {"embed_user", "embed_item", "u_bias", "i_bias"}

Raised(e, looked) == [err |-> e, lookups |-> looked, pred |-> <<>>]
Returned(looked, p) == [err |-> "none", lookups |-> looked, pred |-> p]

\* self.<table>(arg): the outcome of looking a side-feature table up
LookupError(W, table, arg) ==
    IF table \notin DOMAIN W THEN "AttributeError"
    ELSE IF ~arg.some THEN "TypeError"
    ELSE "none"

\* PointFM.forward with the gender branch taken for every feature mode
forward_always_gender(W, feat, user, item, gender, age) ==
    LET embed_user == Embedding(W.embed_user, user)
        embed_item == Embedding(W.embed_item, item)
        pred0 == AddScalar(Add(SumLast(Mul(embed_user, embed_item)),
                               Add(Embedding(W.u_bias, user), Embedding(W.i_bias, item))),
                           W.bias_)
    IN  IF LookupError(W, "embed_gender", gender) # "none"
        THEN Raised(LookupError(W, "embed_gender", gender), BaseLookups \cup {"embed_gender"})
        ELSE LET embed_gender == Embedding(W.embed_gender, gender.v)
             IN  Returned(BaseLookups \cup {"embed_gender", "g_bias"},
                     View(Add(Add(pred0, Add(SumLast(Mul(embed_gender, embed_user)),
                                             SumLast(Mul(embed_gender, embed_item)))),
                              Embedding(W.g_bias, gender.v))))

\* PointFM.forward without the age-gender interaction of feature 2
forward_no_age_gender(W, feat, user, item, gender, age) ==
    LET embed_user == Embedding(W.embed_user, user)
        embed_item == Embedding(W.embed_item, item)
        pred0 == AddScalar(Add(SumLast(Mul(embed_user, embed_item)),
                               Add(Embedding(W.u_bias, user), Embedding(W.i_bias, item))),
                           W.bias_)
    IN  IF feat = 0 THEN
            IF LookupError(W, "embed_gender", gender) # "none"
            THEN Raised(LookupError(W, "embed_gender", gender), BaseLookups \cup {"embed_gender"})
            ELSE LET embed_gender == Embedding(W.embed_gender, gender.v)
                 IN  Returned(BaseLookups \cup {"embed_gender", "g_bias"},
                         View(Add(Add(pred0, Add(SumLast(Mul(embed_gender, embed_user)),
                                                 SumLast(Mul(embed_gender, embed_item)))),
                                  Embedding(W.g_bias, gender.v))))
        ELSE IF feat = 1 THEN
            IF LookupError(W, "embed_age", age) # "none"
            THEN Raised(LookupError(W, "embed_age", age), BaseLookups \cup {"embed_age"})
            ELSE LET embed_age == Embedding(W.embed_age, age.v)
                 IN  Returned(BaseLookups \cup {"embed_age", "a_bias"},
                         View(Add(Add(pred0, Add(SumLast(Mul(embed_age, embed_user)),
                                                 SumLast(Mul(embed_age, embed_item)))),
                                  Embedding(W.a_bias, age.v))))
        ELSE IF feat = 2 THEN
            IF LookupError(W, "embed_gender", gender) # "none"
            THEN Raised(LookupError(W, "embed_gender", gender), BaseLookups \cup {"embed_gender"})
            ELSE IF LookupError(W, "embed_age", age) # "none"
            THEN Raised(LookupError(W, "embed_age", age),
                        BaseLookups \cup {"embed_gender", "embed_age"})
            ELSE LET embed_gender == Embedding(W.embed_gender, gender.v)
                     embed_age == Embedding(W.embed_age, age.v)
                     pred1 == Add(pred0, Add(SumLast(Mul(embed_gender, embed_user)),
                                             SumLast(Mul(embed_gender, embed_item))))
                     pred2 == Add(pred1, Add(SumLast(Mul(embed_age, embed_user)),
                                             SumLast(Mul(embed_age, embed_item))))
                 IN  Returned(BaseLookups \cup {"embed_gender", "g_bias", "embed_age", "a_bias"},
                         View(Add(pred2, Add(Embedding(W.g_bias, gender.v),
                                             Embedding(W.a_bias, age.v)))))
        ELSE Returned(BaseLookups, View(pred0))

\* PointFM.forward
forward(W, feat, user, item, gender, age) ==
    LET embed_user == Embedding(W.embed_user, user)
        embed_item == Embedding(W.embed_item, item)
        pred0 == AddScalar(Add(SumLast(Mul(embed_user, embed_item)),
                               Add(Embedding(W.u_bias, user), Embedding(W.i_bias, item))),
                           W.bias_)
    IN  IF feat = 0 THEN
            IF LookupError(W, "embed_gender", gender) # "none"
            THEN Raised(LookupError(W, "embed_gender", gender), BaseLookups \cup {"embed_gender"})
            ELSE LET embed_gender == Embedding(W.embed_gender, gender.v)
                 IN  Returned(BaseLookups \cup {"embed_gender", "g_bias"},
                         View(Add(Add(pred0, Add(SumLast(Mul(embed_gender, embed_user)),
                                                 SumLast(Mul(embed_gender, embed_item)))),
                                  Embedding(W.g_bias, gender.v))))
        ELSE IF feat = 1 THEN
            IF LookupError(W, "embed_age", age) # "none"
            THEN Raised(LookupError(W, "embed_age", age), BaseLookups \cup {"embed_age"})
            ELSE LET embed_age == Embedding(W.embed_age, age.v)
                 IN  Returned(BaseLookups \cup {"embed_age", "a_bias"},
                         View(Add(Add(pred0, Add(SumLast(Mul(embed_age, embed_user)),
                                                 SumLast(Mul(embed_age, embed_item)))),
                                  Embedding(W.a_bias, age.v))))
        ELSE IF feat = 2 THEN
            IF LookupError(W, "embed_gender", gender) # "none"
            THEN Raised(LookupError(W, "embed_gender", gender), BaseLookups \cup {"embed_gender"})
            ELSE IF LookupError(W, "embed_age", age) # "none"
            THEN Raised(LookupError(W, "embed_age", age),
                        BaseLookups \cup {"embed_gender", "embed_age"})
            ELSE LET embed_gender == Embedding(W.embed_gender, gender.v)
                     embed_age == Embedding(W.embed_age, age.v)
                     pred1 == Add(pred0, Add(SumLast(Mul(embed_gender, embed_user)),
                                             SumLast(Mul(embed_gender, embed_item))))
                     pred2 == Add(pred1, Add(SumLast(Mul(embed_age, embed_user)),
                                             SumLast(Mul(embed_age, embed_item))))
                     pred3 == Add(pred2, SumLast(Mul(embed_age, embed_gender)))
                 IN  Returned(BaseLookups \cup {"embed_gender", "g_bias", "embed_age", "a_bias"},
                         View(Add(pred3, Add(Embedding(W.g_bias, gender.v),
                                             Embedding(W.a_bias, age.v)))))
        ELSE Returned(BaseLookups, View(pred0))

\* PointFM.predict
predict(W, feat, u, i, g, a) ==
    IF feat = 0 THEN forward(W, feat, u, i, g, None)
    ELSE IF feat = 1 THEN forward(W, feat, u, i, None, a)
    ELSE IF feat = 2 THEN forward(W, feat, u, i, g, a)
    ELSE forward(W, feat, u, i, None, None)

-----------------------------------------------------------------------------
(* Calls of the scoring function on a model whose tables hold any values   *)

\* a batch of examples (user, item, gender, age), all fields of one length
Examples == Users \X Items \X Genders \X Ages

RECURSIVE SeqsUpTo(_, _)
SeqsUpTo(S, n) ==
    IF n = 0 THEN {<<>>}
    ELSE LET shorter == SeqsUpTo(S, n - 1)
         IN  shorter \cup {Append(b, e) : b \in {x \in shorter : Len(x) = n - 1}, e \in S}

Batches == SeqsUpTo(Examples, MaxBatchLen)

Field(b, f) == [k \in 1..Len(b) |-> b[k][f]]

NoBatch == [id |-> 0, user |-> <<>>, item |-> <<>>, gender |-> <<>>, age |-> <<>>,
            label |-> <<>>, on_cuda |-> {}]
NoPrediction == [err |-> "none", lookups |-> {}, n |-> 0]

NoCall == [op |-> "none", examples |-> <<>>, gender |-> FALSE, age |-> FALSE]
NoRet == [err |-> "none", lookups |-> {}, pred |-> <<>>]

\* fit not running
FitIdle ==
    /\ cuda_available = FALSE
    /\ train_loader = <<>>
    /\ device = "cpu"
    /\ training = TRUE
    /\ updates = 0
    /\ grads = "none"
    /\ pc = "idle"
    /\ outcome = "none"
    /\ epoch = 0
    /\ it = 0
    /\ batch = NoBatch
    /\ prediction = NoPrediction
    /\ loss = Fin(0)
    /\ current_loss = Fin(0)
    /\ last_loss = Fin(0)
    /\ loader_calls = 0
    /\ batches_done = 0
    /\ steps_log = <<>>
    /\ consumed = <<>>
    /\ epochs_same = TRUE

InitScore ==
    /\ feature \in Features
    /\ loss_type = "CL"
    /\ epochs = 0
    /\ early_stop = TRUE
    /\ \E seed \in Seeds : weights = Construct(feature, seed, FALSE)
    /\ FitIdle
    /\ call = NoCall
    /\ ret = NoRet

\* a caller invokes model.forward(user, item[, gender][, age])
CallForward ==
    /\ pc = "idle"
    /\ call.op = "none"
    /\ \E b \in Batches, withGender \in BOOLEAN, withAge \in BOOLEAN :
          /\ call' = [op |-> "forward", examples |-> b, gender |-> withGender, age |-> withAge]
          /\ ret' = forward(weights, feature, Field(b, 1), Field(b, 2),
                            IF withGender THEN Some(Field(b, 3)) ELSE None,
                            IF withAge THEN Some(Field(b, 4)) ELSE None)
    /\ UNCHANGED <<feature, loss_type, epochs, early_stop, weights>>
    /\ UNCHANGED fitVars

\* a caller invokes model.predict(u, i[, g][, a])
CallPredict ==
    /\ pc = "idle"
    /\ call.op = "none"
    /\ \E b \in Batches, withGender \in BOOLEAN, withAge \in BOOLEAN :
          /\ call' = [op |-> "predict", examples |-> b, gender |-> withGender, age |-> withAge]
          /\ ret' = predict(weights, feature, Field(b, 1), Field(b, 2),
                            IF withGender THEN Some(Field(b, 3)) ELSE None,
                            IF withAge THEN Some(Field(b, 4)) ELSE None)
    /\ UNCHANGED <<feature, loss_type, epochs, early_stop, weights>>
    /\ UNCHANGED fitVars

NextScore == CallForward \/ CallPredict

SpecScore == InitScore /\ [][NextScore]_vars

-----------------------------------------------------------------------------
(* fit(train_loader)                                                       *)

\* the k-th batch the loader yields: (user, item, gender, age, label) tensors
BatchOf(k) ==
    [id |-> k,
     user |-> [j \in 1..MaxBatchLen |-> (k + j) % UserNum],
     item |-> [j \in 1..MaxBatchLen |-> k % ItemNum],
     gender |-> [j \in 1..MaxBatchLen |-> j % GenderNum],
     age |-> [j \in 1..MaxBatchLen |-> (k + j) % AgeNum],
     label |-> [j \in 1..MaxBatchLen |-> j % 2],
     on_cuda |-> {}]

Loader(n) == [k \in 1..n |-> BatchOf(k)]

\* what criterion(prediction, label) can evaluate to
CriterionValues == {Fin(0), Fin(5), PosInf, NaN}

\* what reg_1 * (L1 norms) + reg_2 * (L2 norms) can evaluate to (reg_1 and
\* reg_2 are any floats, negative ones included)
PenaltyValues == {Fin(0), Fin(10), Fin(-5), NegInf}

\* the penalty of the side-feature tables of a feature mode
SidePenaltyValues(feat) == IF feat \in {0, 1, 2} THEN {Fin(0), PosInf} ELSE {Fin(0)}

Init ==
    /\ feature \in Features
    /\ loss_type \in LossTypes
    /\ epochs \in 0..MaxEpochs
    /\ early_stop \in BOOLEAN
    /\ weights = Construct(feature, 1, TRUE)
    /\ cuda_available \in BOOLEAN
    /\ \E n \in 0..MaxBatches : train_loader = Loader(n)
    /\ device = "cpu"
    /\ training = TRUE
    /\ updates = 0
    /\ grads = "none"
    /\ pc = "fit"
    /\ outcome = "running"
    /\ epoch = 0
    /\ it = 0
    /\ batch = NoBatch
    /\ prediction = NoPrediction
    /\ loss = Fin(0)
    /\ current_loss = Fin(0)
    /\ last_loss = Fin(0)
    /\ loader_calls = 0
    /\ batches_done = 0
    /\ steps_log = <<>>
    /\ consumed = <<>>
    /\ epochs_same = TRUE
    /\ call = NoCall
    /\ ret = NoRet

config == <<feature, loss_type, epochs, early_stop, weights, cuda_available,
            train_loader, call, ret>>

\* lines 124-129: the module is moved to the device chosen once
SelectDevice ==
    /\ pc = "fit"
    /\ device' = IF cuda_available THEN "cuda" ELSE "cpu"
    /\ pc' = "criterion"
    /\ UNCHANGED <<training, updates, grads, outcome, epoch, it, batch, prediction,
                   loss, current_loss, last_loss, loader_calls, batches_done,
                   steps_log, consumed, epochs_same>>
    /\ UNCHANGED config

\* the loss types fit has a criterion for
criterion_any(lt) == TRUE

criterion(lt) == lt = "CL" \/ lt = "SL"

\* lines 131-138, with the previous loss starting at infinity
SelectCriterion_last_inf ==
    /\ pc = "criterion"
    /\ IF criterion(loss_type)
       THEN /\ pc' = "epoch_loop"
            /\ last_loss' = PosInf
            /\ UNCHANGED outcome
       ELSE /\ pc' = "raised"
            /\ outcome' = "invalid_loss_type"
            /\ UNCHANGED last_loss
    /\ UNCHANGED <<device, training, updates, grads, epoch, it, batch, prediction,
                   loss, current_loss, loader_calls, batches_done, steps_log,
                   consumed, epochs_same>>
    /\ UNCHANGED config

\* lines 131-138
SelectCriterion ==
    /\ pc = "criterion"
    /\ IF criterion(loss_type)
       THEN /\ pc' = "epoch_loop"
            /\ last_loss' = Fin(0)
            /\ UNCHANGED outcome
       ELSE /\ pc' = "raised"
            /\ outcome' = "invalid_loss_type"
            /\ UNCHANGED last_loss
    /\ UNCHANGED <<device, training, updates, grads, epoch, it, batch, prediction,
                   loss, current_loss, loader_calls, batches_done, steps_log,
                   consumed, epochs_same>>
    /\ UNCHANGED config

\* lines 139-146: the next epoch begins and the loader is iterated anew
EpochStart ==
    /\ pc = "epoch_loop"
    /\ epoch < epochs
    /\ epoch' = epoch + 1
    /\ training' = TRUE
    /\ current_loss' = Fin(0)
    /\ it' = 0
    /\ loader_calls' = loader_calls + 1
    /\ consumed' = <<>>
    /\ steps_log' = <<>>
    /\ pc' = "next_batch"
    /\ UNCHANGED <<device, updates, grads, outcome, batch, prediction, loss,
                   last_loss, batches_done, epochs_same>>
    /\ UNCHANGED config

\* line 139: range(1, epochs + 1) is exhausted, fit returns
FitReturn ==
    /\ pc = "epoch_loop"
    /\ epoch >= epochs
    /\ pc' = "done"
    /\ outcome' = "exhausted"
    /\ UNCHANGED <<device, training, updates, grads, epoch, it, batch, prediction,
                   loss, current_loss, last_loss, loader_calls, batches_done,
                   steps_log, consumed, epochs_same>>
    /\ UNCHANGED config

\* line 146: the for statement asks the loader for the next batch
NextBatch ==
    /\ pc = "next_batch"
    /\ loader_calls' = loader_calls + 1
    /\ IF it < Len(train_loader)
       THEN /\ it' = it + 1
            /\ batch' = train_loader[it + 1]
            /\ consumed' = Append(consumed, train_loader[it + 1].id)
            /\ steps_log' = <<>>
            /\ pc' = "to_device"
       ELSE /\ pc' = "epoch_end"
            /\ UNCHANGED <<it, batch, consumed, steps_log>>
    /\ UNCHANGED <<device, training, updates, grads, outcome, epoch, prediction,
                   loss, current_loss, last_loss, batches_done, epochs_same>>
    /\ UNCHANGED config

\* the tensors of a batch that fit moves, by feature mode
moved_fields(feat) ==
    IF feat = 0 THEN {"user", "item", "label", "gender"}
    ELSE IF feat = 1 THEN {"user", "item", "label", "age"}
    ELSE IF feat = 2 THEN {"user", "item", "label", "gender", "age"}
    ELSE {"user", "item", "label"}

\* lines 147-156: tensor.cuda() raises when there is no CUDA device
ToDevice ==
    /\ pc = "to_device"
    /\ IF cuda_available
       THEN /\ batch' = [batch EXCEPT !.on_cuda = moved_fields(feature)]
            /\ pc' = "zero_grad"
            /\ UNCHANGED outcome
       ELSE /\ pc' = "raised"
            /\ outcome' = "cuda_unavailable"
            /\ UNCHANGED batch
    /\ UNCHANGED <<device, training, updates, grads, epoch, it, prediction, loss,
                   current_loss, last_loss, loader_calls, batches_done, steps_log,
                   consumed, epochs_same>>
    /\ UNCHANGED config

\* line 158
ZeroGrad ==
    /\ pc = "zero_grad"
    /\ grads' = "cleared"
    /\ steps_log' = Append(steps_log, "zero_grad")
    /\ pc' = "forward"
    /\ UNCHANGED <<device, training, updates, outcome, epoch, it, batch, prediction,
                   loss, current_loss, last_loss, loader_calls, batches_done,
                   consumed, epochs_same>>
    /\ UNCHANGED config

\* lines 159-166: the call of forward, with the arguments of the feature mode
fit_forward(W, feat, b) ==
    IF feat = 0 THEN forward(W, feat, b.user, b.item, Some(b.gender), None)
    ELSE IF feat = 1 THEN forward(W, feat, b.user, b.item, None, Some(b.age))
    ELSE IF feat = 2 THEN forward(W, feat, b.user, b.item, Some(b.gender), Some(b.age))
    ELSE forward(W, feat, b.user, b.item, None, None)

\* lines 159-166.  The tables are read at their constructed values, which
\* decides the lookups and the shape of the prediction, not its values.
Forward ==
    /\ pc = "forward"
    /\ LET r == fit_forward(weights, feature, batch)
       IN  /\ prediction' = [err |-> r.err, lookups |-> r.lookups, n |-> Len(r.pred)]
           /\ IF r.err = "none"
              THEN /\ pc' = "loss"
                   /\ UNCHANGED outcome
              ELSE /\ pc' = "raised"
                   /\ outcome' = r.err
    /\ steps_log' = Append(steps_log, "forward")
    /\ UNCHANGED <<device, training, updates, grads, epoch, it, batch, loss,
                   current_loss, last_loss, loader_calls, batches_done, consumed,
                   epochs_same>>
    /\ UNCHANGED config

\* lines 168-180: criterion plus the norm penalties
Loss ==
    /\ pc = "loss"
    /\ \E c \in CriterionValues, r \in PenaltyValues, s \in SidePenaltyValues(feature) :
          loss' = FAdd(FAdd(c, r), s)
    /\ steps_log' = Append(steps_log, "loss")
    /\ pc' = "check"
    /\ UNCHANGED <<device, training, updates, grads, outcome, epoch, it, batch,
                   prediction, current_loss, last_loss, loader_calls, batches_done,
                   consumed, epochs_same>>
    /\ UNCHANGED config

\* line 182: the losses the check rejects
loss_rejected(l) == isnan(l)

\* lines 182-183, placed after optimizer.step()
CheckLoss_after_step ==
    /\ pc = "check"
    /\ IF loss_rejected(loss)
       THEN /\ pc' = "raised"
            /\ outcome' = "loss_nan"
            /\ updates' = updates + 1
            /\ grads' = "computed"
       ELSE /\ pc' = "backward"
            /\ UNCHANGED <<outcome, updates, grads>>
    /\ steps_log' = Append(steps_log, "check")
    /\ UNCHANGED <<device, training, epoch, it, batch, prediction,
                   loss, current_loss, last_loss, loader_calls, batches_done,
                   consumed, epochs_same>>
    /\ UNCHANGED config

\* lines 182-183
CheckLoss ==
    /\ pc = "check"
    /\ IF loss_rejected(loss)
       THEN /\ pc' = "raised"
            /\ outcome' = "loss_nan"
       ELSE /\ pc' = "backward"
            /\ UNCHANGED outcome
    /\ steps_log' = Append(steps_log, "check")
    /\ UNCHANGED <<device, training, updates, grads, epoch, it, batch, prediction,
                   loss, current_loss, last_loss, loader_calls, batches_done,
                   consumed, epochs_same>>
    /\ UNCHANGED config

\* line 185
Backward ==
    /\ pc = "backward"
    /\ grads' = "computed"
    /\ steps_log' = Append(steps_log, "backward")
    /\ pc' = "step"
    /\ UNCHANGED <<device, training, updates, outcome, epoch, it, batch, prediction,
                   loss, current_loss, last_loss, loader_calls, batches_done,
                   consumed, epochs_same>>
    /\ UNCHANGED config

\* line 186: optimizer.step() updates the parameters in place
Step ==
    /\ pc = "step"
    /\ updates' = updates + 1
    /\ steps_log' = Append(steps_log, "step")
    /\ pc' = "accumulate"
    /\ UNCHANGED <<device, training, grads, outcome, epoch, it, batch, prediction,
                   loss, current_loss, last_loss, loader_calls, batches_done,
                   consumed, epochs_same>>
    /\ UNCHANGED config

\* lines 188-189
Accumulate ==
    /\ pc = "accumulate"
    /\ current_loss' = FAdd(current_loss, loss)
    /\ batches_done' = batches_done + 1
    /\ steps_log' = Append(steps_log, "accumulate")
    /\ pc' = "next_batch"
    /\ UNCHANGED <<device, training, updates, grads, outcome, epoch, it, batch,
                   prediction, loss, last_loss, loader_calls, consumed, epochs_same>>
    /\ UNCHANGED config

\* the early-stop test with the comparison turned around
stop_test_inverted(cur, last, es) ==
    LET delta_loss == FSub(cur, last)
    IN  (~LtThreshold(FAbs(delta_loss)) /\ ~isnan(delta_loss)) /\ es

\* the early-stop test without the early_stop flag
stop_test_ignores_flag(cur, last, es) ==
    LET delta_loss == FSub(cur, last)
    IN  LtThreshold(FAbs(delta_loss))

\* the early-stop test on the signed difference, without abs
stop_test_signed(cur, last, es) ==
    LET delta_loss == FSub(cur, last)
    IN  LtThreshold(delta_loss) /\ es

\* lines 192-193
stop_test(cur, last, es) ==
    LET delta_loss == FSub(cur, last)
    IN  LtThreshold(FAbs(delta_loss)) /\ es

\* lines 191-197
EpochEnd ==
    /\ pc = "epoch_end"
    /\ training' = FALSE
    /\ epochs_same' = (epochs_same /\ (epoch = 1 \/ current_loss = last_loss))
    /\ IF stop_test(current_loss, last_loss, early_stop)
       THEN /\ pc' = "done"
            /\ outcome' = "early_stop"
            /\ UNCHANGED last_loss
       ELSE /\ last_loss' = current_loss
            /\ pc' = "epoch_loop"
            /\ UNCHANGED outcome
    /\ UNCHANGED <<device, updates, grads, epoch, it, batch, prediction, loss,
                   current_loss, loader_calls, batches_done, steps_log, consumed>>
    /\ UNCHANGED config

Next ==
    \/ SelectDevice
    \/ SelectCriterion
    \/ EpochStart
    \/ FitReturn
    \/ NextBatch
    \/ ToDevice
    \/ ZeroGrad
    \/ Forward
    \/ Loss
    \/ CheckLoss
    \/ Backward
    \/ Step
    \/ Accumulate
    \/ EpochEnd

Spec == Init /\ [][Next]_vars

-----------------------------------------------------------------------------
(* Properties of fit                                                       *)

InEpoch == {"next_batch", "to_device", "zero_grad", "forward", "loss", "check",
            "backward", "step", "accumulate", "epoch_end"}

BatchSteps == <<"zero_grad", "forward", "loss", "check", "backward", "step", "accumulate">>

\* C1: with a loss_type other than 'CL' and 'SL', fit raises the
\* configuration error before the loader is asked for anything: the loader
\* receives no call, no epoch starts and no parameter is updated.
C1_InvalidLossTypeRaisesFirst ==
    (loss_type # "CL" /\ loss_type # "SL" /\ pc # "idle") =>
        /\ loader_calls = 0
        /\ epoch = 0
        /\ updates = 0
        /\ batches_done = 0
        /\ pc \in {"fit", "criterion", "raised"}
        /\ (pc = "raised" => outcome = "invalid_loss_type")

C1_Witness ==
    /\ pc = "raised"
    /\ outcome = "invalid_loss_type"
    /\ loss_type = "XYZ"
    /\ Len(train_loader) > 0
    /\ epochs > 0

\* C2: a batch whose combined loss is not finite (NaN, +infinity or
\* -infinity) aborts fit: backward, the optimizer step and the accumulation
\* are reached only with a finite loss.
C2_NonFiniteLossAborts ==
    (pc \in {"backward", "step", "accumulate"}) => IsFinite(loss)

\* C3, as claimed: with early_stop enabled and the same total loss in every
\* epoch, fit returns after strictly fewer than `epochs` epochs, for every
\* epochs >= 1.
C3_StopsBeforeEpochsExhausted ==
    (early_stop /\ epochs >= 1 /\ pc = "done" /\ epochs_same) => epoch < epochs

\* C3, amended: with early_stop enabled and the same finite total loss in
\* every epoch, fit starts at most two epochs, so it runs strictly fewer than
\* `epochs` epochs whenever epochs >= 3.
C3_ConstantLossStopsByEpochTwo ==
    (early_stop /\ epochs_same /\ IsFinite(last_loss) /\ pc # "idle") =>
        /\ epoch <= 2
        /\ (epochs >= 3 => epoch < epochs)

C3_Witness ==
    /\ pc = "done"
    /\ outcome = "early_stop"
    /\ early_stop
    /\ epochs_same
    /\ epochs >= 3
    /\ epoch = 2
    /\ IsFinite(last_loss)
    /\ ~LtThreshold(FAbs(last_loss))
    /\ current_loss = last_loss

\* C4: without a GPU fit processes every batch on the CPU: it never fails
\* because of device placement, and the tensors of a batch being processed
\* are on the device chosen at the start of fit.
C4_BatchesFollowTheChosenDevice ==
    /\ outcome # "cuda_unavailable"
    /\ (pc \in {"zero_grad", "forward", "loss", "check", "backward", "step", "accumulate"}
           => (device = "cuda") = (batch.on_cuda # {}))

\* C6: when fit aborts on a non-finite loss, the parameters have received
\* exactly one update per batch completed before it: the aborting batch
\* updated nothing.
C6_AbortLeavesLastUpdate ==
    (pc = "raised" /\ outcome = "loss_nan") => updates = batches_done

C6_Witness ==
    /\ pc = "raised"
    /\ outcome = "loss_nan"
    /\ batches_done >= 1
    /\ updates = batches_done
    /\ isnan(loss)

C7_EpochEndStep ==
    pc = "epoch_end" =>
        IF early_stop /\ LtThreshold(FAbs(FSub(current_loss, last_loss)))
        THEN pc' = "done" /\ epoch' = epoch
        ELSE last_loss' = current_loss /\ pc' = "epoch_loop" /\ epoch' = epoch

C7_Ends ==
    /\ epoch <= epochs
    /\ (pc = "done" => outcome \in {"early_stop", "exhausted"})
    /\ (outcome = "exhausted" => epoch = epochs)
    /\ (pc = "raised" => outcome \in {"invalid_loss_type", "loss_nan", "cuda_unavailable"})
    /\ (pc \in {"done", "raised"} => ~ENABLED Next)

\* C7: after each epoch, if early_stop is enabled and |total - previous
\* total| < 1e-5 no further epoch starts, otherwise the total becomes the
\* previous total and the loop continues; fit ends only by early stop, by
\* exhausting the epochs or by a fatal error, and never runs more than
\* `epochs` epochs.
C7_EpochLoop == [](pc # "idle" => C7_Ends) /\ [][C7_EpochEndStep]_vars

C7_Witness ==
    /\ pc = "done"
    /\ outcome = "early_stop"
    /\ epoch >= 2
    /\ epoch < epochs
    /\ current_loss # last_loss

\* C8: with early_stop disabled and no fatal error fit runs exactly `epochs`
\* epochs; the batches are taken in the loader's order, each one goes through
\* zero_grad, forward, loss, check, backward, one optimizer step and the
\* accumulation before the next is requested, and the epoch total starts
\* at 0.
C8_SequentialEpochs ==
    (~early_stop /\ pc # "idle") =>
        /\ (pc = "done" =>
               /\ epoch = epochs
               /\ batches_done = epochs * Len(train_loader)
               /\ updates = batches_done)
        /\ (pc = "next_batch" /\ it = 0 => current_loss = Fin(0))
        /\ (pc = "next_batch" /\ it > 0 => steps_log = BatchSteps)
        /\ (pc \in {"next_batch", "epoch_end"} =>
               /\ updates = batches_done
               /\ batches_done = (epoch - 1) * Len(train_loader) + it
               /\ consumed = [k \in 1..it |-> train_loader[k].id])
        /\ (pc = "epoch_end" => it = Len(train_loader))
        /\ (pc \in InEpoch \ {"next_batch", "epoch_end"} =>
               /\ batch = [train_loader[it] EXCEPT !.on_cuda = batch.on_cuda]
               /\ \E n \in 0..Len(BatchSteps) : steps_log = SubSeq(BatchSteps, 1, n))

C8_Witness ==
    /\ pc = "done"
    /\ ~early_stop
    /\ outcome = "exhausted"
    /\ epochs >= 2
    /\ epoch = epochs
    /\ Len(train_loader) >= 2
    /\ updates = epochs * Len(train_loader)

C10_FirstEpochStep ==
    (pc = "epoch_end" /\ epoch = 1 /\ early_stop
        /\ LtThreshold(FAbs(current_loss))) =>
        (pc' = "done" /\ epoch' = 1 /\ outcome' = "early_stop")

C10_States ==
    /\ (epoch = 1 /\ pc \in InEpoch => last_loss = Fin(0))
    /\ (Len(train_loader) = 0 => updates = 0)
    /\ (early_stop /\ Len(train_loader) = 0 /\ pc = "done" /\ epochs >= 1 => epoch = 1)
    /\ (pc = "done" /\ epoch >= 1 => training = FALSE)

\* C10: the previous-epoch loss starts at 0, so with early_stop enabled a
\* first epoch whose total is below 1e-5 in absolute value (as with an empty
\* loader) ends fit after exactly one epoch; with an empty loader no
\* parameter changes; a normal return after at least one epoch leaves the
\* model in evaluation mode.
C10_FirstEpochComparedWithZero ==
    [](pc # "idle" => C10_States) /\ [][C10_FirstEpochStep]_vars

C10_Witness ==
    /\ pc = "done"
    /\ outcome = "early_stop"
    /\ early_stop
    /\ Len(train_loader) = 0
    /\ epochs >= 2
    /\ epoch = 1
    /\ updates = 0
    /\ training = FALSE

-----------------------------------------------------------------------------
(* Properties of the scoring function                                      *)

Dot(x, y) == SumSeq([f \in 1..Len(x) |-> x[f] * y[f]])

Row(table, idx) == table[idx + 1]

\* the score of one example (user, item, gender, age), term by term
BaseScore(W, e) ==
    Dot(Row(W.embed_user, e[1]), Row(W.embed_item, e[2]))
        + Row(W.u_bias, e[1])[1] + Row(W.i_bias, e[2])[1] + W.bias_[1]

GenderTerms(W, e) ==
    Dot(Row(W.embed_gender, e[3]), Row(W.embed_user, e[1]))
        + Dot(Row(W.embed_gender, e[3]), Row(W.embed_item, e[2]))

AgeTerms(W, e) ==
    Dot(Row(W.embed_age, e[4]), Row(W.embed_user, e[1]))
        + Dot(Row(W.embed_age, e[4]), Row(W.embed_item, e[2]))

ReferenceScore(W, feat, e) ==
    IF feat = 0 THEN BaseScore(W, e) + GenderTerms(W, e) + Row(W.g_bias, e[3])[1]
    ELSE IF feat = 1 THEN BaseScore(W, e) + AgeTerms(W, e) + Row(W.a_bias, e[4])[1]
    ELSE IF feat = 2 THEN BaseScore(W, e) + GenderTerms(W, e) + AgeTerms(W, e)
                          + Dot(Row(W.embed_age, e[4]), Row(W.embed_gender, e[3]))
                          + Row(W.g_bias, e[3])[1] + Row(W.a_bias, e[4])[1]
    ELSE BaseScore(W, e)

\* the call passed the side features its feature mode reads
SideFeaturesPassed ==
    /\ (feature \in {0, 2} => call.gender)
    /\ (feature \in {1, 2} => call.age)

BatchOrders(n) == {p \in [1..n -> 1..n] : \A i, j \in 1..n : p[i] = p[j] => i = j}

Permuted(s, p) == [k \in 1..Len(s) |-> s[p[k]]]

\* C5: with a feature value other than 0, 1, 2, forward and predict look no
\* gender or age table up and return, whatever gender and age arguments are
\* passed, the score made of the user and item terms and the global bias.
C5_NoSideFeatureIgnoresGenderAge ==
    (feature \notin {0, 1, 2} /\ call.op # "none") =>
        /\ ret.err = "none"
        /\ ret.lookups \cap {"embed_gender", "g_bias", "embed_age", "a_bias"} = {}
        /\ Len(ret.pred) = Len(call.examples)
        /\ \A k \in 1..Len(call.examples) :
              ret.pred[k] = BaseScore(weights, call.examples[k])

C5_Witness ==
    /\ feature = 3
    /\ call.op = "predict"
    /\ call.gender
    /\ call.age
    /\ Len(call.examples) >= 1
    /\ ret.err = "none"
    /\ ret.pred[1] = BaseScore(weights, call.examples[1])

\* C9: forward returns, for example k of an in-range batch, the reference
\* sum of that example alone for the feature mode, one score per example in
\* input order, so that permuting the batch permutes the scores.
C9_ForwardIsTheReferenceSum ==
    (call.op = "forward" /\ SideFeaturesPassed) =>
        /\ ret.err = "none"
        /\ Len(ret.pred) = Len(call.examples)
        /\ \A k \in 1..Len(call.examples) :
              ret.pred[k] = ReferenceScore(weights, feature, call.examples[k])
        /\ \A p \in BatchOrders(Len(call.examples)) :
              LET b == Permuted(call.examples, p)
              IN  forward(weights, feature, Field(b, 1), Field(b, 2),
                          IF call.gender THEN Some(Field(b, 3)) ELSE None,
                          IF call.age THEN Some(Field(b, 4)) ELSE None).pred
                      = Permuted(ret.pred, p)

C9_Witness ==
    /\ call.op = "forward"
    /\ feature = 2
    /\ call.gender
    /\ call.age
    /\ Len(call.examples) >= 2
    /\ ret.err = "none"
    /\ ret.pred[1] # ret.pred[2]
    /\ Dot(Row(weights.embed_age, call.examples[1][4]),
           Row(weights.embed_gender, call.examples[1][3])) # 0

====
